---- MODULE Spec2Model ----
(***************************************************************************)
(* Model of the Physics library of the black-hole simulation               *)
(* (src/unnamed/part_000).                                                  *)
(*                                                                         *)
(* A JavaScript Number is modelled as what it is, an IEEE-754 binary64     *)
(* value: NaN, +Infinity, -Infinity, or s * m * 2^e with a mantissa m of   *)
(* at most 53 bits.  + - * / and Math.sqrt round their exact result to the *)
(* nearest such value, ties to even, overflow to an infinity and underflow *)
(* gradually to zero.  Math.pow, which ECMA-262 leaves                     *)
(* implementation-approximated, is modelled as the correctly rounded       *)
(* power.  Negative zero is not modelled.  Every Number carries the set ev *)
(* of arithmetic faults ("div0", "sqrtNeg", "powNeg") met while computing  *)
(* it.                                                                     *)
(***************************************************************************)
EXTENDS Integers, Sequences, FiniteSets, TLC

Max(a, b) == IF a >= b THEN a ELSE b

Min(a, b) == IF a <= b THEN a ELSE b

Abs(i) == IF i < 0 THEN -i ELSE i

Sgn(i) == IF i < 0 THEN -1 ELSE IF i > 0 THEN 1 ELSE 0

(***************************************************************************)
(* Only({f(x) : x \in {e}}) is f(x) where x is the value of e, with e      *)
(* evaluated once, as a const declaration of JavaScript does: the argument *)
(* of an operator and a LET definition are expressions, which TLC may      *)
(* evaluate again each time they are named.                                *)
(***************************************************************************)
Only(S) == CHOOSE x \in S : TRUE

(***************************************************************************)
(* Naturals of arbitrary size, for mantissas and their exact products and  *)
(* quotients: little-endian sequences of limbs in 0..Base-1 without high   *)
(* zero limbs; << >> is zero.                                              *)
(***************************************************************************)
LimbBits == 15

Base == 2 ^ LimbBits

RECURSIVE StripLen(_, _)
StripLen(v, n) ==
    IF n = 0 THEN 0 ELSE IF v[n] # 0 THEN n ELSE StripLen(v, n - 1)

NStrip(a) == Only({SubSeq(v, 1, StripLen(v, Len(v))) : v \in {a}})

RECURSIVE NatOfInt(_)
NatOfInt(i) == IF i = 0 THEN << >> ELSE <<i % Base>> \o NatOfInt(i \div Base)

RECURSIVE IntOfLimbs(_, _)
IntOfLimbs(v, i) ==
    IF i > Len(v) THEN 0 ELSE v[i] + Base * IntOfLimbs(v, i + 1)

IntOfNat(a) == Only({IntOfLimbs(v, 1) : v \in {a}})

RECURSIVE NCmpFrom(_, _, _)
NCmpFrom(x, y, i) ==
    IF i = 0 THEN 0
    ELSE IF x[i] < y[i] THEN -1
    ELSE IF x[i] > y[i] THEN 1
    ELSE NCmpFrom(x, y, i - 1)

NCmp(a, b) ==
    Only({IF Len(x) < Len(y) THEN -1
          ELSE IF Len(x) > Len(y) THEN 1
          ELSE NCmpFrom(x, y, Len(x))
          : x \in {a}, y \in {b}})

\* the limbs of the columns v[lo..hi], each an integer, with carry (or borrow,
\* a negative carry) cin into the lowest: <<limbs, carry out>>, by halves,
\* the carry out of the low half going into the high half
RECURSIVE Carry(_, _, _, _)
Carry(v, lo, hi, cin) ==
    IF lo > hi THEN << << >>, cin >>
    ELSE IF lo = hi
    THEN Only({<< <<t % Base>>, t \div Base >> : t \in {v[lo] + cin}})
    ELSE Only({Only({<< low[1] \o high[1], high[2] >>
                     : high \in {Carry(v, ((lo + hi) \div 2) + 1, hi,
                                       low[2])}})
               : low \in {Carry(v, lo, (lo + hi) \div 2, cin)}})

\* the natural whose columns are v, for a result >= 0
Normalize(v) ==
    Only({Only({NStrip(r[1] \o NatOfInt(r[2]))
                : r \in {Carry(w, 1, Len(w), 0)}})
          : w \in {v}})

Limb(a, i) == IF i <= Len(a) THEN a[i] ELSE 0

NAdd(a, b) ==
    Only({Normalize([i \in 1 .. Max(Len(x), Len(y)) |->
                        Limb(x, i) + Limb(y, i)])
          : x \in {a}, y \in {b}})

\* a - b for a >= b
NSub(a, b) ==
    Only({Normalize([i \in 1 .. Len(x) |-> x[i] - Limb(y, i)])
          : x \in {a}, y \in {b}})

\* a * k for 0 <= k < Base
NMulSmall(a, k) ==
    Only({Normalize([i \in 1 .. Len(x) |-> x[i] * n])
          : x \in {a}, n \in {k}})

\* a * Base^k
NShiftLimbs(a, k) ==
    Only({IF x = << >> THEN << >> ELSE [i \in 1 .. k |-> 0] \o x
          : x \in {a}})

\* a times the limbs b[lo..hi] in their places, by halves
RECURSIVE NMulRange(_, _, _, _)
NMulRange(a, b, lo, hi) ==
    IF lo = hi THEN NShiftLimbs(NMulSmall(a, b[lo]), lo - 1)
    ELSE NAdd(NMulRange(a, b, lo, (lo + hi) \div 2),
              NMulRange(a, b, ((lo + hi) \div 2) + 1, hi))

NMul(a, b) ==
    Only({IF x = << >> \/ y = << >> THEN << >> ELSE NMulRange(x, y, 1, Len(y))
          : x \in {a}, y \in {b}})

RECURSIVE NPow(_, _)
NPow(a, k) ==
    IF k = 0 THEN <<1>>
    ELSE IF k = 1 THEN a
    ELSE Only({IF k % 2 = 1 THEN NMul(x, NMul(h, h)) ELSE NMul(h, h)
               : x \in {a}, h \in {NPow(a, k \div 2)}})

\* the number of bits of a limb > 0
LimbBitLen(x) == CHOOSE b \in 1 .. LimbBits : 2 ^ (b - 1) <= x /\ x < 2 ^ b

\* the number of bits of a: 0 for 0, else the b with 2^(b-1) <= a < 2^b
NBitLen(a) ==
    Only({IF x = << >> THEN 0
          ELSE LimbBits * (Len(x) - 1) + LimbBitLen(x[Len(x)])
          : x \in {a}})

\* a * 2^k
NShl(a, k) == NShiftLimbs(NMulSmall(a, 2 ^ (k % LimbBits)), k \div LimbBits)

\* floor(a / 2^k)
NShr(a, k) ==
    Only({LET drop == n \div LimbBits
              bits == 2 ^ (n % LimbBits)
              top  == 2 ^ (LimbBits - (n % LimbBits))
          IN  IF drop >= Len(x) THEN << >>
              ELSE NStrip([i \in 1 .. Len(x) - drop |->
                              (x[i + drop] \div bits)
                              + (Limb(x, i + drop + 1) % bits) * top])
          : x \in {a}, n \in {k}})

\* a mod 2^k
NLowBits(a, k) ==
    Only({IF n \div LimbBits >= Len(x) THEN x
          ELSE NStrip([i \in 1 .. (n \div LimbBits) + 1 |->
                          IF i <= n \div LimbBits THEN x[i]
                          ELSE x[i] % (2 ^ (n % LimbBits))])
          : x \in {a}, n \in {k}})

\* the number of zero bits a limb > 0 ends in
LimbTrailingZeros(x) ==
    CHOOSE b \in 0 .. LimbBits - 1 : x % (2 ^ b) = 0 /\ x % (2 ^ (b + 1)) # 0

\* the index of the lowest limb of a > 0 that is not zero
LowLimb(a) ==
    CHOOSE j \in 1 .. Len(a) : a[j] # 0 /\ \A l \in 1 .. j - 1 : a[l] = 0

\* the number of zero bits a > 0 ends in
NTrailingZeros(a) ==
    Only({Only({LimbBits * (i - 1) + LimbTrailingZeros(x[i])
                : i \in {LowLimb(x)}})
          : x \in {a}})

NIsOdd(a) == Only({x # << >> /\ x[1] % 2 = 1 : x \in {a}})

\* the division of a by k, 0 < k < Base, over the limbs hi down to lo, with r
\* the remainder of the limbs above hi: <<limbs lo .. hi of the quotient,
\* remainder>>; the upper half first, its remainder carried into the lower
RECURSIVE DivSmallFrom(_, _, _, _, _)
DivSmallFrom(a, k, lo, hi, r) ==
    IF lo > hi THEN << << >>, r >>
    ELSE IF lo = hi
    THEN Only({<< <<t \div k>>, t % k >> : t \in {r * Base + a[lo]}})
    ELSE Only({Only({<< low[1] \o high[1], low[2] >>
                     : low \in {DivSmallFrom(a, k, lo, mid, high[2])}})
               : mid \in {(lo + hi) \div 2},
                 high \in {DivSmallFrom(a, k, ((lo + hi) \div 2) + 1, hi, r)}})

\* <<floor(a / k), a mod k>> for 0 < k < Base, the second an integer
NDivModSmall(a, k) ==
    Only({Only({<<NStrip(d[1]), d[2]>>
                : d \in {DivSmallFrom(x, n, 1, Len(x), 0)}})
          : x \in {a}, n \in {k}})

\* limb i of the quotient in the long division by b, whose high limb is at
\* least Base / 2, where r < b * Base is the remainder so far with limb i of
\* the dividend brought down: at most 2 below the quotient of the high limbs
\* (Knuth, The Art of Computer Programming, 4.3.1, Theorem B)
QuotLimb(r, b) ==
    Only({IF NCmp(NMulSmall(b, qh), r) <= 0 THEN qh
          ELSE IF NCmp(NMulSmall(b, qh - 1), r) <= 0 THEN qh - 1
          ELSE qh - 2
          : qh \in {Min(Base - 1,
                        (Limb(r, Len(b)) + Base * Limb(r, Len(b) + 1))
                        \div b[Len(b)])}})

\* long division of a by b from limb i down; quot holds the limbs of the
\* quotient above i and rem the remainder so far
RECURSIVE NDivLoop(_, _, _, _, _)
NDivLoop(a, b, i, quot, rem) ==
    IF i = 0 THEN NStrip(quot)
    ELSE Only({Only({IF q = 0 THEN NDivLoop(a, b, i - 1, <<0>> \o quot, r)
                     ELSE NDivLoop(a, b, i - 1, <<q>> \o quot,
                                   NSub(r, NMulSmall(b, q)))
                     : q \in {QuotLimb(r, b)}})
               : r \in {NStrip(<<a[i]>> \o rem)}})

\* floor(a / b) for b > 0
NDiv(a, b) ==
    Only({IF Len(y) = 1 THEN NDivModSmall(x, y[1])[1]
          ELSE IF NCmp(x, y) < 0 THEN << >>
          ELSE Only({NDivLoop(an, bn, Len(an) - Len(bn) + 1, << >>,
                              SubSeq(an, Len(an) - Len(bn) + 2, Len(an)))
                     : an \in {NShl(x, LimbBits - LimbBitLen(y[Len(y)]))},
                       bn \in {NShl(y, LimbBits - LimbBitLen(y[Len(y)]))}})
          : x \in {a}, y \in {b}})

(***************************************************************************)
(* JavaScript Numbers.  k is "fin", "inf" (s gives the sign) or "nan".  A  *)
(* finite Number is s * m * 2^e with s in {-1, 0, 1} and m odd, or zero    *)
(* with s = 0, m = 0 and e = 0, so equal values are equal records.         *)
(***************************************************************************)
MantissaBits == 53

MinExponent == -1074

MaxExponent == 1024

Num(k, s, m, e, ev) == [k |-> k, s |-> s, m |-> m, e |-> e, ev |-> ev]

NaN(ev) == Num("nan", 0, << >>, 0, ev)

Infinity(s, ev) == Num("inf", s, << >>, 0, ev)

Zero(ev) == Num("fin", 0, << >>, 0, ev)

\* the natural n without its sh low bits, rounded to nearest, ties to even:
\* one more when the bits dropped (and the fraction behind them, if sticky)
\* are more than half a unit, or just half and the bits kept are odd
RoundedUp(n, sh, sticky) ==
    IF sh = 0 THEN n
    ELSE Only({IF half > 0 \/ (half = 0 /\ (sticky \/ NIsOdd(NShr(n, sh))))
               THEN NAdd(NShr(n, sh), <<1>>)
               ELSE NShr(n, sh)
               : half \in {NCmp(NLowBits(n, sh), NShl(<<1>>, sh - 1))}})

\* the Number s * m * 2^e of a natural m of at most MantissaBits bits, with
\* e >= MinExponent: an infinity from 2^MaxExponent on
Finite(s, m, e, ev) ==
    Only({IF v = << >> THEN Zero(ev)
          ELSE IF NBitLen(v) + e > MaxExponent THEN Infinity(s, ev)
          ELSE Only({Num("fin", s, NShr(v, tz), e + tz, ev)
                     : tz \in {NTrailingZeros(v)}})
          : v \in {m}})

\* the number of low bits of n that n * 2^e has beyond the MantissaBits bits
\* of a Number, or below 2^MinExponent
RoundShift(n, e) == Max(Max(NBitLen(n) - MantissaBits, MinExponent - e), 0)

\* the binary64 value nearest to s * (n + f) * 2^e, where n is a natural and
\* the fraction f is 0 unless sticky, and then strictly between 0 and 1 (with
\* n of more than MantissaBits bits): round to nearest, ties to even
Round(s, n, e, sticky, ev) ==
    Only({Only({Finite(s, RoundedUp(v, sh, sticky), x + sh, ev)
                : sh \in {RoundShift(v, x)}})
          : v \in {n}, x \in {e}})

\* the number of bits to extend n by for n / d to have MantissaBits + 3 bits
\* or more
QuotientShift(n, d) == Max(MantissaBits + 3 + NBitLen(d) - NBitLen(n), 0)

\* the binary64 value nearest to s * n / d, for naturals n > 0 and d > 0,
\* times 2^e
RoundQuotient(s, n, d, e, ev) ==
    Only({Only({Only({Round(s, q, e - k, NMul(q, y) # NShl(x, k), ev)
                      : q \in {NDiv(NShl(x, k), y)}})
                : k \in {QuotientShift(x, y)}})
          : x \in {n}, y \in {d}})

\* the Number of an integer literal
IntLit(i) == Round(Sgn(i), NatOfInt(Abs(i)), 0, FALSE, {})

\* the Number of a decimal literal m * 10^e, such as 6.67430e-11
Dec(m, e) ==
    IF m = 0 THEN Zero({})
    ELSE IF e >= 0
    THEN Round(Sgn(m), NMul(NatOfInt(Abs(m)), NPow(<<10>>, e)), 0, FALSE, {})
    ELSE RoundQuotient(Sgn(m), NatOfInt(Abs(m)), NPow(<<10>>, -e), 0, {})

\* Number.EPSILON, 2^-52: the gap between 1 and the next Number
Epsilon == Num("fin", 1, <<1>>, 1 - MantissaBits, {})

IsFinite(a) == a.k = "fin"

IsZero(a) == Only({x.k = "fin" /\ x.s = 0 : x \in {a}})

Neg(a) == Only({[x EXCEPT !.s = -x.s] : x \in {a}})

Mul(a, b) ==
    Only({IF x.k = "nan" \/ y.k = "nan" THEN NaN(x.ev \cup y.ev)
          ELSE IF x.k = "fin" /\ y.k = "fin"
          THEN Round(x.s * y.s, NMul(x.m, y.m), x.e + y.e, FALSE,
                     x.ev \cup y.ev)
          ELSE IF x.s * y.s = 0 THEN NaN(x.ev \cup y.ev)
          ELSE Infinity(x.s * y.s, x.ev \cup y.ev)
          : x \in {a}, y \in {b}})

Div(a, b) ==
    Only({LET ev == x.ev \cup y.ev IN
          IF x.k = "nan" \/ y.k = "nan" THEN NaN(ev)
          ELSE IF x.k = "fin" /\ y.k = "fin"
          THEN IF y.s = 0
               THEN IF x.s = 0 THEN NaN(ev \cup {"div0"})
                    ELSE Infinity(x.s, ev \cup {"div0"})
               ELSE IF x.s = 0 THEN Zero(ev)
               ELSE RoundQuotient(x.s * y.s, x.m, y.m, x.e - y.e, ev)
          ELSE IF x.k = "inf" /\ y.k = "inf" THEN NaN(ev)
          ELSE IF x.k = "inf" THEN Infinity(IF y.s < 0 THEN -x.s ELSE x.s, ev)
          ELSE Zero(ev)
          : x \in {a}, y \in {b}})

\* s * x + t * y for naturals x and y and signs s and t, not 0: <<sign,
\* magnitude>>
SignedSum(s, x, t, y) ==
    IF s = t THEN <<s, NAdd(x, y)>>
    ELSE Only({IF cmp > 0 THEN <<s, NSub(x, y)>>
               ELSE IF cmp < 0 THEN <<t, NSub(y, x)>>
               ELSE <<0, << >> >>
               : cmp \in {NCmp(x, y)}})

\* the exact sum of two finite Numbers: <<s, n, e>> for s * n * 2^e
ExactSum(a, b) ==
    Only({IF u.s = 0 THEN <<v.s, v.m, v.e>>
          ELSE IF v.s = 0 THEN <<u.s, u.m, u.e>>
          ELSE Only({<<t[1], t[2], Min(u.e, v.e)>>
                     : t \in {SignedSum(u.s, NShl(u.m, u.e - Min(u.e, v.e)),
                                        v.s, NShl(v.m, v.e - Min(u.e, v.e)))}})
          : u \in {a}, v \in {b}})

Add(a, b) ==
    Only({LET ev == x.ev \cup y.ev IN
          IF x.k = "nan" \/ y.k = "nan" THEN NaN(ev)
          ELSE IF x.k = "fin" /\ y.k = "fin"
          THEN Only({Round(t[1], t[2], t[3], FALSE, ev)
                     : t \in {ExactSum(x, y)}})
          ELSE IF x.k = "inf" /\ y.k = "inf"
          THEN IF x.s = y.s THEN Infinity(x.s, ev) ELSE NaN(ev)
          ELSE IF x.k = "inf" THEN Infinity(x.s, ev)
          ELSE Infinity(y.s, ev)
          : x \in {a}, y \in {b}})

Sub(a, b) == Add(a, Neg(b))

\* the Number p / q of two integers
Frac(p, q) == Div(IntLit(p), IntLit(q))

\* the sign of a - b, for a and b not NaN
Cmp(a, b) ==
    Only({IF x.k = "inf" /\ y.k = "inf" THEN Sgn(x.s - y.s)
          ELSE IF x.k = "inf" THEN x.s
          ELSE IF y.k = "inf" THEN -y.s
          ELSE ExactSum(x, Neg(y))[1]
          : x \in {a}, y \in {b}})

\* a < b, a <= b, a >= b and a === b of JavaScript: false on NaN
Less(a, b) ==
    Only({x.k # "nan" /\ y.k # "nan" /\ Cmp(x, y) < 0
          : x \in {a}, y \in {b}})

Leq(a, b) ==
    Only({x.k # "nan" /\ y.k # "nan" /\ Cmp(x, y) <= 0
          : x \in {a}, y \in {b}})

Geq(a, b) == Leq(b, a)

StrictEq(a, b) ==
    Only({x.k # "nan" /\ y.k # "nan" /\ Cmp(x, y) = 0
          : x \in {a}, y \in {b}})

(***************************************************************************)
(* Roots: floor(n^(1/q)) by Newton's iteration, from a value above the     *)
(* root down to the first iterate that does not decrease.                  *)
(***************************************************************************)
GuessBits == 30

\* floor(t^(1/q)) of an integer 0 < t < 2^GuessBits, from x above it
RECURSIVE IntRootNewton(_, _, _)
IntRootNewton(t, q, x) ==
    Only({IF y >= x THEN x ELSE IntRootNewton(t, q, y)
          : y \in {(x * (q - 1) + t \div (x ^ (q - 1))) \div q}})

IntRoot(t, q) ==
    Only({IntRootNewton(v, q, 2 ^ ((GuessBits + q - 1) \div q)) : v \in {t}})

\* the iterate after x
NewtonStep(n, q, x) ==
    NDiv(NAdd(NMulSmall(x, q - 1), NDiv(n, NPow(x, q - 1))), <<q>>)

\* floor(n^(1/q)) of a natural n > 0, from x above it
RECURSIVE RootNewton(_, _, _)
RootNewton(n, q, x) ==
    Only({IF NCmp(y, x) >= 0 THEN x ELSE RootNewton(n, q, y)
          : y \in {NewtonStep(n, q, x)}})

\* a natural above n^(1/q): the root of n without its s low bits, plus one,
\* in its place, for s a multiple of q that leaves GuessBits bits or fewer
RootGuess(n, q, s) ==
    NShl(NatOfInt(IntRoot(IntOfNat(NShr(n, s)), q) + 1), s \div q)

\* floor(n^(1/q)) for n > 0
NRoot(n, q) ==
    Only({Only({RootNewton(v, q, g)
                : g \in {RootGuess(v, q, q * ((Max(NBitLen(v) - GuessBits, 0)
                                               + q - 1) \div q))}})
          : v \in {n}})

\* the number of bits to extend a natural of so many bits by for its q-th
\* root to have MantissaBits + 3 bits or more, such that q divides pe less
\* that number
PowerShift(bits, pe, q) ==
    Max(q * (MantissaBits + 3) - bits, 0)
    + ((pe - Max(q * (MantissaBits + 3) - bits, 0)) % q)

\* the binary64 value nearest to n^(1/q) * 2^e, for a natural n > 0
RoundRoot(n, e, q, ev) ==
    Only({Only({Round(1, r, e, NPow(r, q) # v, ev) : r \in {NRoot(v, q)}})
          : v \in {n}})

\* the binary64 value nearest to (m * 2^e)^(p/q), for m > 0: the root of
\* m^p * 2^k, times 2^((p * e - k) / q)
RoundPower(m, e, p, q, ev) ==
    Only({Only({RoundRoot(NShl(mp, k), (p * e - k) \div q, q, ev)
                : k \in {PowerShift(NBitLen(mp), p * e, q)}})
          : mp \in {NPow(m, p)}})

\* Math.pow(a, p / q) for a positive exponent p / q that is not an integer
Pow(a, p, q) ==
    Only({IF x.k = "nan" THEN NaN(x.ev)
          ELSE IF x.k = "inf" THEN Infinity(1, x.ev)
          ELSE IF x.s < 0 THEN NaN(x.ev \cup {"powNeg"})
          ELSE IF x.s = 0 THEN Zero(x.ev)
          ELSE RoundPower(x.m, x.e, p, q, x.ev)
          : x \in {a}})

\* Math.sqrt(a)
Sqrt(a) ==
    Only({IF x.k = "nan" THEN NaN(x.ev)
          ELSE IF x.s < 0 THEN NaN(x.ev \cup {"sqrtNeg"})
          ELSE IF x.k = "inf" THEN Infinity(1, x.ev)
          ELSE IF x.s = 0 THEN Zero(x.ev)
          ELSE RoundPower(x.m, x.e, 1, 2, x.ev)
          : x \in {a}})

(***************************************************************************)
(* Number.prototype.toFixed(2) and the strings it builds.                  *)
(***************************************************************************)
DigitStr == <<"0", "1", "2", "3", "4", "5", "6", "7", "8", "9">>

\* the texts ' M' + U+2609 (the sun) and U+00B0 (the degree sign), in ASCII
SolarMasses == " M(sun)"

Degree == "(deg)"

\* the decimal digits of an integer i >= 0
RECURSIVE IntStr(_)
IntStr(i) ==
    IF i < 10 THEN DigitStr[i + 1]
    ELSE IntStr(i \div 10) \o DigitStr[(i % 10) + 1]

\* the last k decimal digits of the integer f
RECURSIVE DigitsStr(_, _)
DigitsStr(f, k) ==
    IF k = 0 THEN ""
    ELSE Only({DigitsStr(v \div 10, k - 1) \o DigitStr[(v % 10) + 1]
               : v \in {f}})

\* the decimal digits of a natural, four at a time
RECURSIVE NDecStr(_)
NDecStr(n) ==
    Only({IF d[1] = << >> THEN IntStr(d[2])
          ELSE NDecStr(d[1]) \o DigitsStr(d[2], 4)
          : d \in {NDivModSmall(n, 10000)}})

\* floor(|a| * k) of a finite Number, for an integer k > 0
FloorTimes(a, k) ==
    Only({IF x.e >= 0 THEN NShl(NMul(x.m, NatOfInt(k)), x.e)
          ELSE NShr(NMul(x.m, NatOfInt(k)), -x.e)
          : x \in {a}})

\* the text of n / 10^k with k decimals, for a natural n
RECURSIVE FixedStr(_, _)
FixedStr(n, k) ==
    IF k > 4
    THEN Only({FixedStr(d[1], k - 4) \o DigitsStr(d[2], 4)
               : d \in {NDivModSmall(n, 10000)}})
    ELSE Only({NDecStr(d[1]) \o "." \o DigitsStr(d[2], k)
               : d \in {NDivModSmall(n, 10 ^ k)}})

\* a.toFixed(2), for |a| < 1e21: "Let n be an integer for which n / 100 - a
\* is as close to zero as possible.  If there are two such n, pick the larger
\* n" (ECMA-262), on the absolute value, with "-" before it when a < 0
toFixed2(a) ==
    Only({IF x.k = "nan" THEN "NaN"
          ELSE IF x.k = "inf"
          THEN (IF x.s < 0 THEN "-Infinity" ELSE "Infinity")
          ELSE (IF x.s < 0 THEN "-" ELSE "")
               \o FixedStr(NDiv(NAdd(FloorTimes(x, 200), <<1>>), <<2>>), 2)
          : x \in {a}})

\* a Number in decimal, cut after the ninth decimal, and from 2^70 (above
\* 1e21) on as its odd mantissa times a power of two: what a trace shows
Text(a) ==
    Only({IF x.k = "nan" THEN "NaN"
          ELSE IF x.k = "inf"
          THEN (IF x.s < 0 THEN "-Infinity" ELSE "Infinity")
          ELSE (IF x.s < 0 THEN "-" ELSE "")
               \o (IF NBitLen(x.m) + x.e > 70
                   THEN NDecStr(x.m) \o "*2^" \o IntStr(x.e)
                   ELSE FixedStr(FloorTimes(x, 10 ^ 9), 9))
          : x \in {a}})

TextOfVector(v) == [x |-> Text(v.x), y |-> Text(v.y), z |-> Text(v.z)]

(***************************************************************************)
(* The Physics object: its three constants are fields, read through this.  *)
(***************************************************************************)
VARIABLES
    G,          \* Physics.G
    c,          \* Physics.c
    solarMass,  \* Physics.solarMass
    call,       \* the last call of a Physics function: its name and arguments
    ret,        \* the value that call returned
    shown,      \* the Numbers of call and ret in decimal
    passed      \* the objects passed to that call, as the call left them

(***************************************************************************)
(* The BlackHoleSimulation of the page, its document and its WebGL         *)
(* programs.                                                               *)
(***************************************************************************)
VARIABLES
    params,         \* this.params
    time,           \* this.time
    rotation,       \* this.rotation
    fps,            \* this.fps
    frameCount,     \* this.frameCount
    lastTime,       \* this.lastTime
    lastFpsUpdate,  \* this.lastFpsUpdate
    mouseDown,      \* this.mouseDown
    lastMouseX,     \* this.lastMouseX
    lastMouseY,     \* this.lastMouseY
    dom,            \* what the elements of the document hold, by id
    uniforms,       \* the values of the scalar uniforms, by program
    pending,        \* the animation frames requested and not yet run
    now,            \* performance.now(), in ms since the constructor read it
    event,          \* the event handled last
    trace,          \* the Physics functions the last handler called, in order
    handled         \* the number of events handled since the page was loaded

physicsVars == <<G, c, solarMass, call, ret, shown, passed>>

simVars ==
    <<params, time, rotation, fps, frameCount, lastTime, lastFpsUpdate,
      mouseDown, lastMouseX, lastMouseY, dom, uniforms, pending, now, event,
      trace, handled>>

vars == <<physicsVars, simVars>>

\* a variant that leaves the result in metres
calculateSchwarzschildRadiusInMetres(mass) ==
    LET massKg == Mul(mass, solarMass)
    IN  Div(Mul(Mul(IntLit(2), G), massKg), Mul(c, c))

\* a variant that is quadratic in the mass
calculateSchwarzschildRadiusQuadratic(mass) ==
    LET massKg == Mul(Mul(mass, mass), solarMass)
        rs     == Div(Mul(Mul(IntLit(2), G), massKg), Mul(c, c))
    IN  Div(rs, IntLit(1000))

calculateSchwarzschildRadius(mass) ==
    LET massKg == Mul(mass, solarMass)
        rs     == Div(Mul(Mul(IntLit(2), G), massKg), Mul(c, c))
    IN  Div(rs, IntLit(1000))

calculateEventHorizon(mass) == calculateSchwarzschildRadius(mass)

\* lines 41-42: Z1 of a spin
iscoZ1(spin) ==
    Add(IntLit(1),
        Mul(Pow(Sub(IntLit(1), Mul(spin, spin)), 1, 3),
            Add(Pow(Add(IntLit(1), spin), 1, 3),
                Pow(Sub(IntLit(1), spin), 1, 3))))

\* line 43: Z2 of a spin and its Z1
iscoZ2(spin, Z1) == Sqrt(Add(Mul(Mul(IntLit(3), spin), spin), Mul(Z1, Z1)))

\* line 44: the product under the square root
iscoRadicand(Z1, Z2) ==
    Mul(Sub(IntLit(3), Z1), Add(Add(IntLit(3), Z1), Mul(IntLit(2), Z2)))

\* a variant with Z1 - 3 in place of 3 - Z1 under the square root
calculateISCOFlipped(mass, spin) ==
    LET rs == calculateSchwarzschildRadius(mass) IN
    Only({Only({Mul(rs, Sub(Add(IntLit(3), Z2),
                            Sqrt(Mul(Sub(Z1, IntLit(3)),
                                     Add(Add(IntLit(3), Z1),
                                         Mul(IntLit(2), Z2))))))
                : Z2 \in {iscoZ2(spin, Z1)}})
          : Z1 \in {iscoZ1(spin)}})

calculateISCO(mass, spin) ==
    LET rs == calculateSchwarzschildRadius(mass) IN
    Only({Only({Mul(rs, Sub(Add(IntLit(3), Z2), Sqrt(iscoRadicand(Z1, Z2))))
                : Z2 \in {iscoZ2(spin, Z1)}})
          : Z1 \in {iscoZ1(spin)}})

\* a variant without the guard of a zero impact parameter
calculateLensingAngleUnguarded(mass, impactParameter) ==
    LET rs == calculateSchwarzschildRadius(mass)
    IN  Div(Mul(IntLit(4), rs), impactParameter)

\* a variant with the factor 2 in place of 4
calculateLensingAngleTwoRs(mass, impactParameter) ==
    IF StrictEq(impactParameter, IntLit(0)) THEN IntLit(0)
    ELSE LET rs == calculateSchwarzschildRadius(mass)
         IN  Div(Mul(IntLit(2), rs), impactParameter)

calculateLensingAngle(mass, impactParameter) ==
    IF StrictEq(impactParameter, IntLit(0)) THEN IntLit(0)
    ELSE LET rs == calculateSchwarzschildRadius(mass)
         IN  Div(Mul(IntLit(4), rs), impactParameter)

calculateOrbitalVelocity(mass, radius) ==
    LET massKg  == Mul(mass, solarMass)
        radiusM == Mul(radius, IntLit(1000))
    IN  Sqrt(Div(Mul(G, massKg), radiusM))

\* a variant with the factor 3 in place of 1.5
calculatePhotonSphereThreeRs(mass) ==
    Mul(calculateSchwarzschildRadius(mass), IntLit(3))

calculatePhotonSphere(mass) ==
    Mul(calculateSchwarzschildRadius(mass), Dec(15, -1))

\* a variant without the guard of the horizon
calculateTimeDilationUnguarded(mass, radius) ==
    Only({Sqrt(Sub(IntLit(1), Div(rs, radius)))
          : rs \in {calculateSchwarzschildRadius(mass)}})

\* a variant with the sign of rs / radius flipped
calculateTimeDilationPlus(mass, radius) ==
    Only({IF Leq(radius, rs) THEN IntLit(0)
          ELSE Sqrt(Add(IntLit(1), Div(rs, radius)))
          : rs \in {calculateSchwarzschildRadius(mass)}})

calculateTimeDilation(mass, radius) ==
    Only({IF Leq(radius, rs) THEN IntLit(0)
          ELSE Sqrt(Sub(IntLit(1), Div(rs, radius)))
          : rs \in {calculateSchwarzschildRadius(mass)}})

\* a variant that divides by the distance, not by its square
calculateSpacetimeCurvatureLinear(mass, x, y, z) ==
    Only({IF StrictEq(dist, IntLit(0)) THEN IntLit(0)
          ELSE LET rs == calculateSchwarzschildRadius(mass)
               IN  Mul(Div(rs, dist), IntLit(100))
          : dist \in {Sqrt(Add(Add(Mul(x, x), Mul(y, y)), Mul(z, z)))}})

calculateSpacetimeCurvature(mass, x, y, z) ==
    Only({IF StrictEq(dist, IntLit(0)) THEN IntLit(0)
          ELSE LET rs == calculateSchwarzschildRadius(mass)
               IN  Mul(Div(rs, Mul(dist, dist)), IntLit(100))
          : dist \in {Sqrt(Add(Add(Mul(x, x), Mul(y, y)), Mul(z, z)))}})

\* lines 85-86: the temperature the colour bands are chosen by
accretionTemp(radius, colorTemp) ==
    LET baseTempFactor == Div(IntLit(1), Pow(radius, 3, 4))
    IN  Mul(baseTempFactor, Add(Dec(5, -1), Mul(colorTemp, Dec(5, -1))))

\* lines 89-109: the colour of a temperature
accretionColor(temp) ==
    IF Less(temp, Dec(33, -2))
    THEN [r |-> Mul(temp, IntLit(3)),
          g |-> Mul(temp, Dec(25, -1)),
          b |-> IntLit(1)]
    ELSE IF Less(temp, Dec(66, -2))
    THEN Only({[r |-> Add(Dec(33, -2), Mul(t, Dec(67, -2))),
                g |-> Add(Dec(83, -2), Mul(t, Dec(17, -2))),
                b |-> Sub(IntLit(1), Mul(t, Dec(3, -1)))]
               : t \in {Mul(Sub(temp, Dec(33, -2)), IntLit(3))}})
    ELSE Only({[r |-> IntLit(1),
                g |-> Sub(IntLit(1), Mul(t, Dec(6, -1))),
                b |-> Sub(Dec(7, -1), Mul(t, Dec(6, -1)))]
               : t \in {Mul(Sub(temp, Dec(66, -2)), IntLit(3))}})

\* a variant that clamps each component to 0-1
calculateAccretionTemperatureClamped(mass, radius, colorTemp) ==
    Only({[r |-> IF Less(col.r, IntLit(0)) THEN IntLit(0)
                 ELSE IF Less(IntLit(1), col.r) THEN IntLit(1) ELSE col.r,
           g |-> IF Less(col.g, IntLit(0)) THEN IntLit(0)
                 ELSE IF Less(IntLit(1), col.g) THEN IntLit(1) ELSE col.g,
           b |-> IF Less(col.b, IntLit(0)) THEN IntLit(0)
                 ELSE IF Less(IntLit(1), col.b) THEN IntLit(1) ELSE col.b]
          : col \in {accretionColor(accretionTemp(radius, colorTemp))}})

calculateAccretionTemperature(mass, radius, colorTemp) ==
    Only({accretionColor(temp)
          : temp \in {accretionTemp(radius, colorTemp)}})

\* a variant whose thresholds are exclusive
formatValueExclusive(value, unit) ==
    IF Less(Dec(1, 6), value)
    THEN toFixed2(Div(value, Dec(1, 6))) \o " M" \o unit
    ELSE IF Less(Dec(1, 3), value)
    THEN toFixed2(Div(value, Dec(1, 3))) \o " k" \o unit
    ELSE IF Less(IntLit(1), value)
    THEN toFixed2(value) \o " " \o unit
    ELSE toFixed2(Mul(value, IntLit(1000))) \o " m" \o unit

formatValue(value, unit) ==
    IF Geq(value, Dec(1, 6))
    THEN toFixed2(Div(value, Dec(1, 6))) \o " M" \o unit
    ELSE IF Geq(value, Dec(1, 3))
    THEN toFixed2(Div(value, Dec(1, 3))) \o " k" \o unit
    ELSE IF Geq(value, IntLit(1))
    THEN toFixed2(value) \o " " \o unit
    ELSE toFixed2(Mul(value, IntLit(1000))) \o " m" \o unit

\* a variant that bends away from the centre
applyGravitationalLensingAway(ray, mass, position) ==
    Only({IF StrictEq(dist, IntLit(0)) THEN ray
          ELSE LET rs == calculateSchwarzschildRadius(mass) IN
               Only({LET toCenter == [x |-> Div(position.x, dist),
                                      y |-> Div(position.y, dist),
                                      z |-> Div(position.z, dist)]
                     IN  [x |-> Add(ray.x, Mul(toCenter.x, bendingStrength)),
                          y |-> Add(ray.y, Mul(toCenter.y, bendingStrength)),
                          z |-> Add(ray.z, Mul(toCenter.z, bendingStrength))]
                     : bendingStrength \in {Mul(Div(rs, Mul(dist, dist)),
                                                Dec(1, -1))}})
          : dist \in {Sqrt(Add(Add(Mul(position.x, position.x),
                                   Mul(position.y, position.y)),
                               Mul(position.z, position.z)))}})

applyGravitationalLensing(ray, mass, position) ==
    Only({IF StrictEq(dist, IntLit(0)) THEN ray
          ELSE LET rs == calculateSchwarzschildRadius(mass) IN
               Only({LET toCenter == [x |-> Div(Neg(position.x), dist),
                                      y |-> Div(Neg(position.y), dist),
                                      z |-> Div(Neg(position.z), dist)]
                     IN  [x |-> Add(ray.x, Mul(toCenter.x, bendingStrength)),
                          y |-> Add(ray.y, Mul(toCenter.y, bendingStrength)),
                          z |-> Add(ray.z, Mul(toCenter.z, bendingStrength))]
                     : bendingStrength \in {Mul(Div(rs, Mul(dist, dist)),
                                                Dec(1, -1))}})
          : dist \in {Sqrt(Add(Add(Mul(position.x, position.x),
                                   Mul(position.y, position.y)),
                               Mul(position.z, position.z)))}})

\* a variant that bends the ray object in place
lensingArgumentsBentInPlace(ray, mass, position) ==
    [ray |-> applyGravitationalLensing(ray, mass, position),
     position |-> position]

\* lines 177-202: the two objects passed to applyGravitationalLensing, after
\* the call; the function reads their components and assigns none of them
lensingArguments(ray, mass, position) == [ray |-> ray, position |-> position]

(***************************************************************************)
(* The arguments the functions are called with.                            *)
(***************************************************************************)
MaxMass == 2

SpinSteps == 4

ColorSteps == 2

MaxCoord == 1

\* -1, 0, 1, 2, 2.5, 10 (the default of the simulation) and 100 solar masses
Masses ==
    {IntLit(m) : m \in -1 .. MaxMass}
    \cup {Dec(25, -1), IntLit(10), IntLit(100)}

\* spins next to the ends of the range 0-1, where 3 - Z1 and 1 - spin^2 are
\* nearest to a change of sign
EdgeSpins == {Dec(1, -9), Dec(999999, -6)}

\* 0, 0.25, ..., 1, the spins next to 0 and to 1, and 1.5 outside the
\* documented range 0-1
Spins ==
    {Frac(k, SpinSteps) : k \in 0 .. SpinSteps} \cup EdgeSpins
    \cup {Dec(15, -1)}

\* masses at the ends of the double range: 2 x 5e277 x solarMass is above the
\* largest double (about 1.8e308), 2 x 4e277 x solarMass is below it, and the
\* radius of 1e-320 solar masses is a subnormal double
ExtremeMasses == {Dec(5, 277), Dec(-5, 277), Dec(4, 277), Dec(1, -320)}

ImpactParameters == {IntLit(0), IntLit(1), IntLit(-2), Dec(5, -1), IntLit(30)}

\* radii given as such (1e18 km is about 100 000 light years), and radii
\* given as a multiple of the Schwarzschild radius of the mass: inside it, on
\* it, on the next Numbers above it and outside it
PlainRadii == {IntLit(0), IntLit(-5), IntLit(30), Dec(1, -3), Dec(1, 18)}

RsFactors ==
    {Dec(5, -1), IntLit(1), Add(IntLit(1), Epsilon), Dec(1001, -3), IntLit(2),
     IntLit(10), IntLit(1000)}

RadiiOf(mass) ==
    PlainRadii
    \cup {Mul(calculateSchwarzschildRadius(mass), f) : f \in RsFactors}

\* radii of the accretion disk in scene units: 625/256 and 16 have the exact
\* powers 125/64 and 8
DiskRadii ==
    {IntLit(0), IntLit(-1), Dec(1, -1), IntLit(1), Frac(625, 256), IntLit(4),
     IntLit(16)}

\* 0, 0.5, 1 and the values that put the temperature on 0.66 and just below
\* it at radius 1, and on 0.33 and just below it at radius 625/256
ColorTemps ==
    {Frac(k, ColorSteps) : k \in 0 .. ColorSteps}
    \cup {Dec(32, -2), Dec(3198, -4), Dec(2890625, -7), Dec(289, -3)}

Coords == {IntLit(k) : k \in 0 .. MaxCoord} \cup {IntLit(-4)}

Vectors == [x : Coords, y : Coords, z : Coords]

Rays ==
    {[x |-> IntLit(0), y |-> IntLit(0), z |-> IntLit(1)],
     [x |-> Dec(6, -1), y |-> Dec(-8, -1), z |-> IntLit(0)],
     [x |-> IntLit(0), y |-> IntLit(0), z |-> IntLit(0)]}

Units == {"km", "m"}

\* the values of the spec's examples, the thresholds and their neighbours,
\* midpoints between two hundredths, zero, negative values and the two values
\* the simulation displays for the default mass
Values ==
    {Dec(2953, -2), IntLit(1500), Dec(5, -1), IntLit(0), IntLit(-5),
     Dec(-1, -3), Dec(1, 6), Dec(1, 3), IntLit(1), Dec(999999, -3),
     Dec(9999, -4), Dec(99999999, -2), Dec(1234567891, -3), Dec(2125, -3),
     Dec(1005, -3), Dec(1005, -6), Dec(2125, 3), Dec(1234565, 0),
     calculateSchwarzschildRadius(IntLit(10)),
     Mul(calculateEventHorizon(IntLit(10)), IntLit(2))}

(***************************************************************************)
(* The BlackHoleSimulation: what its handlers compute.  The canvas, its    *)
(* size, the matrices and the draw calls belong to WebGL and are left out, *)
(* as are the resize listener and the timer that hides the loading screen. *)
(***************************************************************************)

\* the character i of str, "" past its end
CharAt(str, i) == IF i >= 1 /\ i <= Len(str) THEN SubSeq(str, i, i) ELSE ""

IsDigit(ch) == ch \in {DigitStr[i] : i \in 1 .. 10}

DigitOf(ch) == (CHOOSE i \in 1 .. 10 : DigitStr[i] = ch) - 1

\* the first index from i on where str has no digit
RECURSIVE DigitsEnd(_, _)
DigitsEnd(str, i) ==
    IF IsDigit(CharAt(str, i))
    THEN DigitsEnd(str, i + 1)
    ELSE i

\* the integer the digits i .. j - 1 of str spell
RECURSIVE IntOfDigits(_, _, _)
IntOfDigits(str, i, j) ==
    IF i >= j THEN 0
    ELSE IntOfDigits(str, i, j - 1) * 10 + DigitOf(CharAt(str, j - 1))

\* parseFloat of a string made of an optional sign, digits and an optional
\* fraction, the strings a range input gives; NaN when it starts with none
parseFloat(str) ==
    Only({Only({Only({
        IF (intEnd - start) + (fracEnd - fracStart) = 0 THEN NaN({})
        ELSE Dec((IF CharAt(str, 1) = "-" THEN -1 ELSE 1)
                 * (IntOfDigits(str, start, intEnd) * 10 ^ (fracEnd - fracStart)
                    + IntOfDigits(str, fracStart, fracEnd)),
                 fracStart - fracEnd)
        : fracEnd \in {DigitsEnd(str, fracStart)}})
        : fracStart \in {IF CharAt(str, intEnd) = "." THEN intEnd + 1
                         ELSE intEnd}})
        : start \in {IF CharAt(str, 1) \in {"-", "+"} THEN 2 ELSE 1},
          intEnd \in {DigitsEnd(str, IF CharAt(str, 1) \in {"-", "+"}
                                     THEN 2 ELSE 1)}})

\* Math.min and Math.max of two Numbers: NaN when either is NaN
MathMin(a, b) ==
    Only({IF x.k = "nan" \/ y.k = "nan" THEN NaN(x.ev \cup y.ev)
          ELSE IF Less(y, x) THEN y ELSE x
          : x \in {a}, y \in {b}})

MathMax(a, b) ==
    Only({IF x.k = "nan" \/ y.k = "nan" THEN NaN(x.ev \cup y.ev)
          ELSE IF Less(x, y) THEN y ELSE x
          : x \in {a}, y \in {b}})

\* Math.round(a) + '°' for a Number a >= 0: floor(a + 0.5) in decimal
RoundedDegrees(a) ==
    Only({(IF x.k = "nan" THEN "NaN"
           ELSE IF x.k = "inf" THEN "Infinity"
           ELSE NDecStr(NDiv(NAdd(FloorTimes(x, 2), <<1>>), <<2>>)))
          \o Degree
          : x \in {a}})

\* lines 8-18: the parameters the constructor sets
constructorParams ==
    [mass |-> IntLit(10), spin |-> Dec(5, -1),
     accretionBrightness |-> Dec(8, -1), accretionColor |-> Dec(5, -1),
     accretionThickness |-> Dec(3, -1), lensingStrength |-> IntLit(1),
     cameraDistance |-> IntLit(20), cameraAngle |-> IntLit(30),
     autoRotate |-> TRUE]

\* the fields of the simulation when the constructor calls init()
constructed ==
    [params |-> constructorParams, time |-> IntLit(0), rotation |-> IntLit(0),
     fps |-> 0, frameCount |-> 0, lastTime |-> 0, lastFpsUpdate |-> 0]

\* the elements of the document the simulation writes
Sliders ==
    {"mass-slider", "spin-slider", "accretion-brightness-slider",
     "accretion-color-slider", "accretion-thickness-slider",
     "lensing-strength-slider", "camera-distance-slider",
     "camera-angle-slider"}

Labels ==
    {"mass-value", "spin-value", "accretion-brightness-value",
     "accretion-color-value", "accretion-thickness-value",
     "lensing-strength-value", "camera-distance-value", "camera-angle-value"}

Elements ==
    Sliders \cup Labels
    \cup {"auto-rotate-checkbox", "schwarzschild-radius", "event-horizon",
          "fps-counter"}

\* an element holds what the markup of the page gave it until the simulation
\* or the user sets it: then a text, a Number or a flag
Markup == [k |-> "markup"]

TextOf(str) == [text |-> str]

NumberOf(a) == [number |-> a]

CheckedOf(b) == [checked |-> b]

\* lines 444-450: the Physics functions updatePhysicsDisplay calls, in order
DisplayCalls ==
    <<"calculateSchwarzschildRadius", "calculateEventHorizon", "formatValue",
      "formatValue">>

\* the document d after updatePhysicsDisplay with this.params.mass = mass
updatePhysicsDisplay(d, mass) ==
    Only({[d EXCEPT !["schwarzschild-radius"] = TextOf(formatValue(rs, "km")),
                    !["event-horizon"] =
                        TextOf(formatValue(Mul(eh, IntLit(2)), "km"))]
          : rs \in {calculateSchwarzschildRadius(mass)},
            eh \in {calculateEventHorizon(mass)}})

\* one of the handlers of lines 328-355: the parameter is parseFloat(val), the
\* label shows val and its suffix, and the slider holds val, as the user left it
sliderInput(p, d, field, slider, label, suffix, val) ==
    [params |-> [p EXCEPT ![field] = parseFloat(val)],
     dom |-> [d EXCEPT ![slider] = TextOf(val),
                       ![label] = TextOf(val \o suffix)],
     trace |-> << >>]

\* a variant that leaves the two read-outs as they are
massSliderStale(p, d, val) ==
    sliderInput(p, d, "mass", "mass-slider", "mass-value", SolarMasses, val)

\* lines 323-327
massSlider(p, d, val) ==
    Only({[params |-> r.params,
           dom |-> updatePhysicsDisplay(r.dom, r.params.mass),
           trace |-> DisplayCalls]
          : r \in {sliderInput(p, d, "mass", "mass-slider", "mass-value",
                               SolarMasses, val)}})

\* lines 409-419: the parameters resetParameters sets
resetParams ==
    [mass |-> IntLit(10), spin |-> Dec(5, -1),
     accretionBrightness |-> Dec(8, -1), accretionColor |-> Dec(5, -1),
     accretionThickness |-> Dec(3, -1), lensingStrength |-> IntLit(1),
     cameraDistance |-> IntLit(20), cameraAngle |-> IntLit(30),
     autoRotate |-> TRUE]

\* lines 422-438: the document after the "Update UI" block
resetDocument(d) ==
    [d EXCEPT !["mass-slider"] = NumberOf(IntLit(10)),
              !["mass-value"] = TextOf("10" \o SolarMasses),
              !["spin-slider"] = NumberOf(Dec(5, -1)),
              !["spin-value"] = TextOf("0.5"),
              !["accretion-brightness-slider"] = NumberOf(Dec(8, -1)),
              !["accretion-brightness-value"] = TextOf("0.8"),
              !["accretion-color-slider"] = NumberOf(Dec(5, -1)),
              !["accretion-color-value"] = TextOf("0.5"),
              !["accretion-thickness-slider"] = NumberOf(Dec(3, -1)),
              !["accretion-thickness-value"] = TextOf("0.3"),
              !["lensing-strength-slider"] = NumberOf(IntLit(1)),
              !["lensing-strength-value"] = TextOf("1.0"),
              !["camera-distance-slider"] = NumberOf(IntLit(20)),
              !["camera-distance-value"] = TextOf("20"),
              !["camera-angle-slider"] = NumberOf(IntLit(30)),
              !["camera-angle-value"] = TextOf("30" \o Degree),
              !["auto-rotate-checkbox"] = CheckedOf(TRUE)]

\* a variant that keeps the camera where it is
resetParametersKeepingCamera(p, d) ==
    Only({[params |-> q,
           dom |-> updatePhysicsDisplay(resetDocument(d), q.mass),
           trace |-> DisplayCalls]
          : q \in {[resetParams EXCEPT !.cameraDistance = p.cameraDistance,
                                       !.cameraAngle = p.cameraAngle]}})

\* lines 408-441
resetParameters(p, d) ==
    [params |-> resetParams,
     dom |-> updatePhysicsDisplay(resetDocument(d), resetParams.mass),
     trace |-> DisplayCalls]

\* a variant without Math.min(90, .)
mousemoveNoUpperClamp(self, d, clientX, clientY) ==
    IF self.mouseDown
    THEN Only({[rotation |->
                    Add(self.rotation,
                        Mul(IntLit(clientX - self.lastMouseX), Dec(5, -3))),
                params |-> [self.params EXCEPT !.cameraAngle = angle],
                lastMouseX |-> clientX,
                lastMouseY |-> clientY,
                dom |-> [d EXCEPT !["camera-angle-value"] =
                                      TextOf(RoundedDegrees(angle)),
                                  !["camera-angle-slider"] = NumberOf(angle)]]
               : angle \in {MathMax(IntLit(0),
                                    Add(self.params.cameraAngle,
                                        Mul(IntLit(clientY - self.lastMouseY),
                                            Dec(1, -1))))}})
    ELSE [rotation |-> self.rotation, params |-> self.params,
          lastMouseX |-> self.lastMouseX, lastMouseY |-> self.lastMouseY,
          dom |-> d]

\* a variant without the test of this.mouseDown
mousemoveUnguarded(self, d, clientX, clientY) ==
    Only({[rotation |->
               Add(self.rotation,
                   Mul(IntLit(clientX - self.lastMouseX), Dec(5, -3))),
           params |-> [self.params EXCEPT !.cameraAngle = angle],
           lastMouseX |-> clientX,
           lastMouseY |-> clientY,
           dom |-> [d EXCEPT !["camera-angle-value"] =
                                 TextOf(RoundedDegrees(angle)),
                             !["camera-angle-slider"] = NumberOf(angle)]]
          : angle \in {MathMax(IntLit(0),
                               MathMin(IntLit(90),
                                       Add(self.params.cameraAngle,
                                           Mul(IntLit(clientY
                                                      - self.lastMouseY),
                                               Dec(1, -1)))))}})

\* lines 380-397: the fields and the document after a mousemove at
\* (clientX, clientY), for self = the rotation, the parameters, mouseDown and
\* the last position of the pointer
mousemove(self, d, clientX, clientY) ==
    IF self.mouseDown
    THEN Only({[rotation |->
                    Add(self.rotation,
                        Mul(IntLit(clientX - self.lastMouseX), Dec(5, -3))),
                params |-> [self.params EXCEPT !.cameraAngle = angle],
                lastMouseX |-> clientX,
                lastMouseY |-> clientY,
                dom |-> [d EXCEPT !["camera-angle-value"] =
                                      TextOf(RoundedDegrees(angle)),
                                  !["camera-angle-slider"] = NumberOf(angle)]]
               : angle \in {MathMax(IntLit(0),
                                    MathMin(IntLit(90),
                                            Add(self.params.cameraAngle,
                                                Mul(IntLit(clientY
                                                           - self.lastMouseY),
                                                    Dec(1, -1)))))}})
    ELSE [rotation |-> self.rotation, params |-> self.params,
          lastMouseX |-> self.lastMouseX, lastMouseY |-> self.lastMouseY,
          dom |-> d]

\* lines 475-477: this.rotation after createMatrices
createMatrices(p, rot) == IF p.autoRotate THEN Add(rot, Dec(2, -3)) ELSE rot

\* a variant that scales the mass as renderBlackHole scales the sphere
renderScaled(p, t) ==
    [grid |-> [time |-> t, mass |-> Mul(p.mass, Dec(1, -1)),
               lensingStrength |-> p.lensingStrength],
     accretion |-> [time |-> t, spin |-> p.spin,
                    brightness |-> p.accretionBrightness,
                    colorTemp |-> p.accretionColor,
                    thickness |-> p.accretionThickness],
     blackhole |-> [time |-> t],
     stars |-> [time |-> t, mass |-> Mul(p.mass, Dec(1, -1)),
                lensingStrength |-> p.lensingStrength]]

\* lines 573-714: the arguments of the calls of gl.uniform1f in renderStars,
\* renderGrid, renderAccretionDisk and renderBlackHole, by program and name of
\* the uniform, for the parameters p and this.time = t
render(p, t) ==
    [grid |-> [time |-> t, mass |-> p.mass,
               lensingStrength |-> p.lensingStrength],
     accretion |-> [time |-> t, spin |-> p.spin,
                    brightness |-> p.accretionBrightness,
                    colorTemp |-> p.accretionColor,
                    thickness |-> p.accretionThickness],
     blackhole |-> [time |-> t],
     stars |-> [time |-> t, mass |-> p.mass,
                lensingStrength |-> p.lensingStrength]]

\* a variant that refreshes the two read-outs in every frame
animateWithPhysics(self, d, currentTime) ==
    Only({[time |-> t,
           rotation |-> createMatrices(self.params, self.rotation),
           lastTime |-> currentTime,
           fps |-> IF update THEN count ELSE self.fps,
           frameCount |-> IF update THEN 0 ELSE count,
           lastFpsUpdate |-> IF update THEN currentTime
                             ELSE self.lastFpsUpdate,
           dom |-> updatePhysicsDisplay(
                       IF update
                       THEN [d EXCEPT !["fps-counter"] = TextOf(IntStr(count))]
                       ELSE d,
                       self.params.mass),
           uniforms |-> render(self.params, t),
           requested |-> 1,
           trace |-> DisplayCalls]
          : t \in {Add(self.time,
                       Mul(IntLit(currentTime - self.lastTime), Dec(1, -3)))},
            count \in {self.frameCount + 1},
            update \in {currentTime - self.lastFpsUpdate >= 1000}})

\* a variant that waits for more than a second
animateAfterMoreThanASecond(self, d, currentTime) ==
    Only({[time |-> t,
           rotation |-> createMatrices(self.params, self.rotation),
           lastTime |-> currentTime,
           fps |-> IF update THEN count ELSE self.fps,
           frameCount |-> IF update THEN 0 ELSE count,
           lastFpsUpdate |-> IF update THEN currentTime
                             ELSE self.lastFpsUpdate,
           dom |-> IF update
                   THEN [d EXCEPT !["fps-counter"] = TextOf(IntStr(count))]
                   ELSE d,
           uniforms |-> render(self.params, t),
           requested |-> 1,
           trace |-> << >>]
          : t \in {Add(self.time,
                       Mul(IntLit(currentTime - self.lastTime), Dec(1, -3)))},
            count \in {self.frameCount + 1},
            update \in {currentTime - self.lastFpsUpdate > 1000}})

\* lines 530-571: the fields, the document and the uniforms after animate()
\* has run at performance.now() = currentTime, the number of frames it
\* requested (line 531) and the Physics functions it called
animate(self, d, currentTime) ==
    Only({[time |-> t,
           rotation |-> createMatrices(self.params, self.rotation),
           lastTime |-> currentTime,
           fps |-> IF update THEN count ELSE self.fps,
           frameCount |-> IF update THEN 0 ELSE count,
           lastFpsUpdate |-> IF update THEN currentTime
                             ELSE self.lastFpsUpdate,
           dom |-> IF update
                   THEN [d EXCEPT !["fps-counter"] = TextOf(IntStr(count))]
                   ELSE d,
           uniforms |-> render(self.params, t),
           requested |-> 1,
           trace |-> << >>]
          : t \in {Add(self.time,
                       Mul(IntLit(currentTime - self.lastTime), Dec(1, -3)))},
            count \in {self.frameCount + 1},
            update \in {currentTime - self.lastFpsUpdate >= 1000}})

\* the fields of the simulation animate() reads
Self ==
    [params |-> params, time |-> time, rotation |-> rotation, fps |-> fps,
     frameCount |-> frameCount, lastTime |-> lastTime,
     lastFpsUpdate |-> lastFpsUpdate]

(***************************************************************************)
(* The events of the page.                                                 *)
(***************************************************************************)
\* the events handled in one run of the page
MaxEvents == 3

\* ms between the clock reading of the constructor and the first frame
LoadDelay == 40

\* ms between two frames: a frame of a 60 Hz display, and a second
FrameDelays == {16, 1000}

\* the values the user gives the sliders
MassValues == {"5", "2.5"}

SpinValues == {"0.9"}

BrightnessValues == {"0.25"}

ColorValues == {"1"}

ThicknessValues == {"0.1"}

LensingValues == {"2"}

DistanceValues == {"35"}

\* 120: the handler takes what the slider gives; the range of the slider is
\* set by the markup of the page
AngleValues == {"60", "120"}

\* the positions of the pointer: clientX, clientY
Pointers == {<<0, 0>>, <<10, 700>>}

(***************************************************************************)
(* The state machine: a caller calls one function at a time and drops the  *)
(* result before the next call.                                            *)
(***************************************************************************)
Idle == [fn |-> "none"]

Undefined == [k |-> "undefined"]

Init ==
    /\ G = Dec(667430, -16)
    /\ c = IntLit(299792458)
    /\ solarMass = Dec(1989, 27)
    /\ call = Idle
    /\ ret = Undefined
    /\ shown = Idle
    /\ passed = Idle
    /\ mouseDown = FALSE
    /\ lastMouseX = 0
    /\ lastMouseY = 0
    /\ now = LoadDelay
    /\ event = [type |-> "DOMContentLoaded"]
    /\ trace = DisplayCalls
    /\ handled = 0
    /\ params = constructorParams
    /\ \E first \in {animate(constructed,
                              updatePhysicsDisplay([id \in Elements |-> Markup],
                                                   constructorParams.mass),
                              LoadDelay)} :
        /\ time = first.time
        /\ rotation = first.rotation
        /\ fps = first.fps
        /\ frameCount = first.frameCount
        /\ lastTime = first.lastTime
        /\ lastFpsUpdate = first.lastFpsUpdate
        /\ dom = first.dom
        /\ uniforms = first.uniforms
        /\ pending = first.requested

CallSchwarzschildRadius ==
    /\ call = Idle
    /\ \E mass \in Masses \cup ExtremeMasses :
        /\ call' = [fn |-> "calculateSchwarzschildRadius", mass |-> mass]
        /\ ret' = calculateSchwarzschildRadius(mass)
        /\ shown' = [mass |-> Text(mass), ret |-> Text(ret')]
    /\ UNCHANGED <<G, c, solarMass, passed, simVars>>

CallEventHorizon ==
    /\ call = Idle
    /\ \E mass \in Masses :
        /\ call' = [fn |-> "calculateEventHorizon", mass |-> mass]
        /\ ret' = calculateEventHorizon(mass)
        /\ shown' = [mass |-> Text(mass), ret |-> Text(ret')]
    /\ UNCHANGED <<G, c, solarMass, passed, simVars>>

CallISCO ==
    /\ call = Idle
    /\ \E mass \in Masses, spin \in Spins :
        /\ call' = [fn |-> "calculateISCO", mass |-> mass, spin |-> spin]
        /\ ret' = calculateISCO(mass, spin)
        /\ shown' = [mass |-> Text(mass), spin |-> Text(spin),
                     ret |-> Text(ret')]
    /\ UNCHANGED <<G, c, solarMass, passed, simVars>>

CallLensingAngle ==
    /\ call = Idle
    /\ \E mass \in Masses, impactParameter \in ImpactParameters :
        /\ call' = [fn |-> "calculateLensingAngle", mass |-> mass,
                    impactParameter |-> impactParameter]
        /\ ret' = calculateLensingAngle(mass, impactParameter)
        /\ shown' = [mass |-> Text(mass),
                     impactParameter |-> Text(impactParameter),
                     ret |-> Text(ret')]
    /\ UNCHANGED <<G, c, solarMass, passed, simVars>>

CallOrbitalVelocity ==
    /\ call = Idle
    /\ \E mass \in Masses, radius \in PlainRadii :
        /\ call' = [fn |-> "calculateOrbitalVelocity", mass |-> mass,
                    radius |-> radius]
        /\ ret' = calculateOrbitalVelocity(mass, radius)
        /\ shown' = [mass |-> Text(mass), radius |-> Text(radius),
                     ret |-> Text(ret')]
    /\ UNCHANGED <<G, c, solarMass, passed, simVars>>

CallAccretionTemperature ==
    /\ call = Idle
    /\ \E mass \in {IntLit(1), IntLit(10)}, radius \in DiskRadii,
          colorTemp \in ColorTemps :
        /\ call' = [fn |-> "calculateAccretionTemperature", mass |-> mass,
                    radius |-> radius, colorTemp |-> colorTemp]
        /\ ret' = calculateAccretionTemperature(mass, radius, colorTemp)
        /\ shown' = [mass |-> Text(mass), radius |-> Text(radius),
                     colorTemp |-> Text(colorTemp),
                     ret |-> [r |-> Text(ret'.r), g |-> Text(ret'.g),
                              b |-> Text(ret'.b)]]
    /\ UNCHANGED <<G, c, solarMass, passed, simVars>>

CallSpacetimeCurvature ==
    /\ call = Idle
    /\ \E mass \in Masses, p \in Vectors :
        /\ call' = [fn |-> "calculateSpacetimeCurvature", mass |-> mass,
                    x |-> p.x, y |-> p.y, z |-> p.z]
        /\ ret' = calculateSpacetimeCurvature(mass, p.x, p.y, p.z)
        /\ shown' = [mass |-> Text(mass), x |-> Text(p.x), y |-> Text(p.y),
                     z |-> Text(p.z), ret |-> Text(ret')]
    /\ UNCHANGED <<G, c, solarMass, passed, simVars>>

CallPhotonSphere ==
    /\ call = Idle
    /\ \E mass \in Masses :
        /\ call' = [fn |-> "calculatePhotonSphere", mass |-> mass]
        /\ ret' = calculatePhotonSphere(mass)
        /\ shown' = [mass |-> Text(mass), ret |-> Text(ret')]
    /\ UNCHANGED <<G, c, solarMass, passed, simVars>>

CallTimeDilation ==
    /\ call = Idle
    /\ \E mass \in Masses :
        \E radius \in RadiiOf(mass) :
            /\ call' = [fn |-> "calculateTimeDilation", mass |-> mass,
                        radius |-> radius]
            /\ ret' = calculateTimeDilation(mass, radius)
            /\ shown' = [mass |-> Text(mass), radius |-> Text(radius),
                         ret |-> Text(ret')]
    /\ UNCHANGED <<G, c, solarMass, passed, simVars>>

CallFormatValue ==
    /\ call = Idle
    /\ \E value \in Values, unit \in Units :
        /\ call' = [fn |-> "formatValue", value |-> value, unit |-> unit]
        /\ ret' = formatValue(value, unit)
        /\ shown' = [value |-> Text(value), ret |-> ret']
    /\ UNCHANGED <<G, c, solarMass, passed, simVars>>

CallGravitationalLensing ==
    /\ call = Idle
    /\ \E ray \in Rays, mass \in {IntLit(-1), IntLit(0), IntLit(10)},
          position \in Vectors :
        /\ call' = [fn |-> "applyGravitationalLensing", ray |-> ray,
                    mass |-> mass, position |-> position]
        /\ ret' = applyGravitationalLensing(ray, mass, position)
        /\ passed' = lensingArguments(ray, mass, position)
        /\ shown' = [ray |-> TextOfVector(ray), mass |-> Text(mass),
                     position |-> TextOfVector(position),
                     ret |-> TextOfVector(ret')]
    /\ UNCHANGED <<G, c, solarMass, simVars>>

\* the caller is done with the result
Return ==
    /\ call # Idle
    /\ call' = Idle
    /\ ret' = Undefined
    /\ shown' = Idle
    /\ passed' = Idle
    /\ UNCHANGED <<G, c, solarMass, simVars>>

Next ==
    \/ CallSchwarzschildRadius
    \/ CallEventHorizon
    \/ CallISCO
    \/ CallLensingAngle
    \/ CallOrbitalVelocity
    \/ CallAccretionTemperature
    \/ CallSpacetimeCurvature
    \/ CallPhotonSphere
    \/ CallTimeDilation
    \/ CallFormatValue
    \/ CallGravitationalLensing
    \/ Return

Spec == Init /\ [][Next]_vars

(***************************************************************************)
(* The page: the browser runs one handler at a time, each to its end.      *)
(***************************************************************************)
\* what the handler of a slider, of the box or of the button leaves alone
SliderFrame ==
    /\ handled' = handled + 1
    /\ UNCHANGED <<time, rotation, fps, frameCount, lastTime, lastFpsUpdate,
                   mouseDown, lastMouseX, lastMouseY, uniforms, pending, now>>
    /\ UNCHANGED physicsVars

InputMass ==
    /\ handled < MaxEvents
    /\ \E val \in MassValues :
        \E r \in {massSlider(params, dom, val)} :
            /\ params' = r.params
            /\ dom' = r.dom
            /\ trace' = r.trace
            /\ event' = [type |-> "input", target |-> "mass-slider",
                         value |-> val]
    /\ SliderFrame

InputSpin ==
    /\ handled < MaxEvents
    /\ \E val \in SpinValues :
        \E r \in {sliderInput(params, dom, "spin", "spin-slider",
                              "spin-value", "", val)} :
            /\ params' = r.params
            /\ dom' = r.dom
            /\ trace' = r.trace
            /\ event' = [type |-> "input", target |-> "spin-slider",
                         value |-> val]
    /\ SliderFrame

InputAccretionBrightness ==
    /\ handled < MaxEvents
    /\ \E val \in BrightnessValues :
        \E r \in {sliderInput(params, dom, "accretionBrightness",
                              "accretion-brightness-slider",
                              "accretion-brightness-value", "", val)} :
            /\ params' = r.params
            /\ dom' = r.dom
            /\ trace' = r.trace
            /\ event' = [type |-> "input",
                         target |-> "accretion-brightness-slider",
                         value |-> val]
    /\ SliderFrame

InputAccretionColor ==
    /\ handled < MaxEvents
    /\ \E val \in ColorValues :
        \E r \in {sliderInput(params, dom, "accretionColor",
                              "accretion-color-slider",
                              "accretion-color-value", "", val)} :
            /\ params' = r.params
            /\ dom' = r.dom
            /\ trace' = r.trace
            /\ event' = [type |-> "input",
                         target |-> "accretion-color-slider", value |-> val]
    /\ SliderFrame

InputAccretionThickness ==
    /\ handled < MaxEvents
    /\ \E val \in ThicknessValues :
        \E r \in {sliderInput(params, dom, "accretionThickness",
                              "accretion-thickness-slider",
                              "accretion-thickness-value", "", val)} :
            /\ params' = r.params
            /\ dom' = r.dom
            /\ trace' = r.trace
            /\ event' = [type |-> "input",
                         target |-> "accretion-thickness-slider",
                         value |-> val]
    /\ SliderFrame

InputLensingStrength ==
    /\ handled < MaxEvents
    /\ \E val \in LensingValues :
        \E r \in {sliderInput(params, dom, "lensingStrength",
                              "lensing-strength-slider",
                              "lensing-strength-value", "", val)} :
            /\ params' = r.params
            /\ dom' = r.dom
            /\ trace' = r.trace
            /\ event' = [type |-> "input",
                         target |-> "lensing-strength-slider", value |-> val]
    /\ SliderFrame

InputCameraDistance ==
    /\ handled < MaxEvents
    /\ \E val \in DistanceValues :
        \E r \in {sliderInput(params, dom, "cameraDistance",
                              "camera-distance-slider",
                              "camera-distance-value", "", val)} :
            /\ params' = r.params
            /\ dom' = r.dom
            /\ trace' = r.trace
            /\ event' = [type |-> "input",
                         target |-> "camera-distance-slider", value |-> val]
    /\ SliderFrame

InputCameraAngle ==
    /\ handled < MaxEvents
    /\ \E val \in AngleValues :
        \E r \in {sliderInput(params, dom, "cameraAngle",
                              "camera-angle-slider", "camera-angle-value",
                              Degree, val)} :
            /\ params' = r.params
            /\ dom' = r.dom
            /\ trace' = r.trace
            /\ event' = [type |-> "input", target |-> "camera-angle-slider",
                         value |-> val]
    /\ SliderFrame

\* lines 364-366: the user has set or cleared the box
ChangeAutoRotate ==
    /\ handled < MaxEvents
    /\ \E checked \in BOOLEAN :
        /\ dom["auto-rotate-checkbox"] # CheckedOf(checked)
        /\ params' = [params EXCEPT !.autoRotate = checked]
        /\ dom' = [dom EXCEPT !["auto-rotate-checkbox"] = CheckedOf(checked)]
        /\ event' = [type |-> "change", target |-> "auto-rotate-checkbox",
                     checked |-> checked]
    /\ trace' = << >>
    /\ SliderFrame

\* lines 369-371
ClickReset ==
    /\ handled < MaxEvents
    /\ \E r \in {resetParameters(params, dom)} :
        /\ params' = r.params
        /\ dom' = r.dom
        /\ trace' = r.trace
    /\ event' = [type |-> "click", target |-> "reset-button"]
    /\ SliderFrame

\* lines 374-378
MouseDown ==
    /\ handled < MaxEvents
    /\ \E at \in Pointers :
        /\ mouseDown' = TRUE
        /\ lastMouseX' = at[1]
        /\ lastMouseY' = at[2]
        /\ event' = [type |-> "mousedown", clientX |-> at[1],
                     clientY |-> at[2]]
    /\ trace' = << >>
    /\ handled' = handled + 1
    /\ UNCHANGED <<params, time, rotation, fps, frameCount, lastTime,
                   lastFpsUpdate, dom, uniforms, pending, now>>
    /\ UNCHANGED physicsVars

\* lines 380-397
MouseMove ==
    /\ handled < MaxEvents
    /\ \E at \in Pointers :
        \E r \in {mousemove([rotation |-> rotation, params |-> params,
                             mouseDown |-> mouseDown,
                             lastMouseX |-> lastMouseX,
                             lastMouseY |-> lastMouseY],
                            dom, at[1], at[2])} :
            /\ rotation' = r.rotation
            /\ params' = r.params
            /\ lastMouseX' = r.lastMouseX
            /\ lastMouseY' = r.lastMouseY
            /\ dom' = r.dom
            /\ event' = [type |-> "mousemove", clientX |-> at[1],
                         clientY |-> at[2]]
    /\ trace' = << >>
    /\ handled' = handled + 1
    /\ UNCHANGED <<time, fps, frameCount, lastTime, lastFpsUpdate, mouseDown,
                   uniforms, pending, now>>
    /\ UNCHANGED physicsVars

\* what mouseup and mouseleave leave alone
ReleaseFrame ==
    /\ trace' = << >>
    /\ handled' = handled + 1
    /\ UNCHANGED <<params, time, rotation, fps, frameCount, lastTime,
                   lastFpsUpdate, lastMouseX, lastMouseY, dom, uniforms,
                   pending, now>>
    /\ UNCHANGED physicsVars

\* lines 399-401
MouseUp ==
    /\ handled < MaxEvents
    /\ mouseDown' = FALSE
    /\ event' = [type |-> "mouseup"]
    /\ ReleaseFrame

\* lines 403-405
MouseLeave ==
    /\ handled < MaxEvents
    /\ mouseDown' = FALSE
    /\ event' = [type |-> "mouseleave"]
    /\ ReleaseFrame

\* lines 530-549: the browser runs a requested animation frame; animate()
\* requests the next one, reads the clock and renders
Frame ==
    /\ handled < MaxEvents
    /\ pending > 0
    /\ \E delay \in FrameDelays :
        \E r \in {animate(Self, dom, now + delay)} :
            /\ now' = now + delay
            /\ time' = r.time
            /\ rotation' = r.rotation
            /\ fps' = r.fps
            /\ frameCount' = r.frameCount
            /\ lastTime' = r.lastTime
            /\ lastFpsUpdate' = r.lastFpsUpdate
            /\ dom' = r.dom
            /\ uniforms' = r.uniforms
            /\ pending' = (pending - 1) + r.requested
            /\ trace' = r.trace
            /\ event' = [type |-> "frame", now |-> now + delay]
    /\ handled' = handled + 1
    /\ UNCHANGED <<params, mouseDown, lastMouseX, lastMouseY>>
    /\ UNCHANGED physicsVars

SimNext ==
    \/ InputMass
    \/ InputSpin
    \/ InputAccretionBrightness
    \/ InputAccretionColor
    \/ InputAccretionThickness
    \/ InputLensingStrength
    \/ InputCameraDistance
    \/ InputCameraAngle
    \/ ChangeAutoRotate
    \/ ClickReset
    \/ MouseDown
    \/ MouseMove
    \/ MouseUp
    \/ MouseLeave
    \/ Frame

SimSpec == Init /\ [][SimNext]_vars



(***************************************************************************)
(* Properties.                                                             *)
(***************************************************************************)
AbsNum(a) == [a EXCEPT !.s = Abs(a.s)]

\* a and b are the same value (NaN taken as one value)
SameNumber(a, b) ==
    /\ a.k = b.k
    /\ a.k = "inf" => a.s = b.s
    /\ a.k = "fin" => Cmp(a, b) = 0

\* a rounded to two decimals reads str
RoundsTo(a, str) == toFixed2(a) = str

\* C1: for every mass > 0, calculateISCO(mass, spin) at spin = 0 equals exactly
\* 3 x calculateSchwarzschildRadius(mass).
C1_IscoAtSpinZeroIsThreeRs ==
    (call.fn = "calculateISCO" /\ call.mass.s > 0 /\ IsZero(call.spin))
    => SameNumber(ret, Mul(IntLit(3), calculateSchwarzschildRadius(call.mass)))

\* what the code returns at spin = 0: 6 x rs
C1_Observed ==
    /\ call.fn = "calculateISCO"
    /\ call.mass = IntLit(10)
    /\ IsZero(call.spin)
    /\ SameNumber(ret, Mul(IntLit(6), calculateSchwarzschildRadius(call.mass)))

Breakpoints == {Dec(33, -2), Dec(66, -2)}

ContinuityDelta == Dec(1, -3)

ContinuityEps == Dec(1, -2)

\* C2: the colour is continuous at both band boundaries: for each of r, g and
\* b, the value of the lower band's formula for a temperature within
\* ContinuityDelta below 0.33 (0.66) differs from the value of the upper band's
\* formula at 0.33 (0.66) by at most ContinuityEps.
C2_ColourContinuousAtBreakpoints ==
    call.fn = "calculateAccretionTemperature"
    => LET temp == accretionTemp(call.radius, call.colorTemp)
       IN  \A bp \in Breakpoints :
              (Less(temp, bp) /\ Leq(Sub(bp, temp), ContinuityDelta))
              => \A ch \in {"r", "g", "b"} :
                     Leq(AbsNum(Sub(ret[ch], accretionColor(bp)[ch])),
                         ContinuityEps)

\* a temperature within ContinuityDelta below 0.33 whose red component is more
\* than 0.6 away from the red component at 0.33
C2_Observed ==
    /\ call.fn = "calculateAccretionTemperature"
    /\ LET temp == accretionTemp(call.radius, call.colorTemp)
       IN  /\ Less(temp, Dec(33, -2))
           /\ Leq(Sub(Dec(33, -2), temp), ContinuityDelta)
           /\ Less(Dec(6, -1),
                   Sub(ret.r, accretionColor(Dec(33, -2)).r))

\* C3 as stated: calculateSchwarzschildRadius(10) is 29.53 km when rounded to
\* two decimals.
C3_RsOfTenRoundsTo2953 ==
    (call.fn = "calculateSchwarzschildRadius" /\ call.mass = IntLit(10))
    => RoundsTo(ret, "29.53")

\* C3 as amended: calculateSchwarzschildRadius(10), computed from
\* G = 6.67430e-11, c = 299792458 and solarMass = 1.989e30, is 29.54 km when
\* rounded to two decimals.
C3_RsOfTenRoundsTo2954 ==
    (call.fn = "calculateSchwarzschildRadius" /\ call.mass = IntLit(10))
    => RoundsTo(ret, "29.54")

C3_Witness ==
    /\ call.fn = "calculateSchwarzschildRadius"
    /\ call.mass = IntLit(10)
    /\ Less(Dec(2954, -2), ret)
    /\ Less(ret, Dec(2955, -2))

C4_Rule(value, unit) ==
    CASE Geq(value, Dec(1, 6)) ->
             toFixed2(Div(value, Dec(1, 6))) \o " M" \o unit
      [] Less(value, Dec(1, 6)) /\ Geq(value, Dec(1, 3)) ->
             toFixed2(Div(value, Dec(1, 3))) \o " k" \o unit
      [] Less(value, Dec(1, 3)) /\ Geq(value, IntLit(1)) ->
             toFixed2(value) \o " " \o unit
      [] Less(value, IntLit(1)) ->
             toFixed2(Mul(value, IntLit(1000))) \o " m" \o unit

\* values and the strings they are displayed as, for the unit "km"
C4_Examples ==
    {<<Dec(2953, -2), "29.53 km">>, <<IntLit(1500), "1.50 kkm">>,
     <<Dec(5, -1), "500.00 mkm">>, <<IntLit(0), "0.00 mkm">>,
     <<IntLit(-5), "-5000.00 mkm">>, <<Dec(-1, -3), "-1.00 mkm">>,
     <<Dec(1, 6), "1.00 Mkm">>, <<Dec(1, 3), "1.00 kkm">>,
     <<IntLit(1), "1.00 km">>, <<Dec(999999, -3), "1000.00 km">>,
     <<Dec(9999, -4), "999.90 mkm">>, <<Dec(99999999, -2), "1000.00 kkm">>,
     <<Dec(1234567891, -3), "1.23 Mkm">>, <<Dec(2125, -3), "2.13 km">>,
     <<Dec(1005, -3), "1.00 km">>, <<Dec(1005, -6), "1.01 mkm">>,
     <<Dec(2125, 3), "2.13 Mkm">>, <<Dec(1234565, 0), "1.23 Mkm">>}

\* C4: formatValue selects exactly one prefix by the thresholds 1e6, 1e3 and 1
\* checked in that order: value >= 1e6 gives value / 1e6 with " M" + unit, else
\* value >= 1e3 gives value / 1e3 with " k" + unit, else value >= 1 gives value
\* with " " + unit, else (0 and negative values too) value * 1000 with
\* " m" + unit, each number rounded to two decimals; (29.53, "km") gives
\* "29.53 km", (1500, "km") "1.50 kkm" and (0.5, "km") "500.00 mkm".
C4_FormatValueByThresholds ==
    call.fn = "formatValue"
    => /\ ret = C4_Rule(call.value, call.unit)
       /\ \A ex \in C4_Examples :
              (call.value = ex[1] /\ call.unit = "km") => ret = ex[2]

C4_Witness ==
    /\ call.fn = "formatValue"
    /\ call.value = IntLit(1500)
    /\ call.unit = "km"
    /\ ret = "1.50 kkm"

\* C5: for every mass > 0 and every radius <=
\* calculateSchwarzschildRadius(mass) (radius equal to rs, zero and negative
\* too), calculateTimeDilation returns
\* exactly 0 and evaluates neither the square root of a negative number nor a
\* division by zero.
C5_ZeroInsideHorizon ==
    (/\ call.fn = "calculateTimeDilation"
     /\ call.mass.s > 0
     /\ Leq(call.radius, calculateSchwarzschildRadius(call.mass)))
    => IsZero(ret) /\ ret.ev = {}

C5_Witness ==
    /\ call.fn = "calculateTimeDilation"
    /\ call.mass.s > 0
    /\ StrictEq(call.radius, calculateSchwarzschildRadius(call.mass))
    /\ IsZero(ret)

\* the call is one of calculateTimeDilation outside the horizon of a mass > 0
OutsideHorizon ==
    /\ call.fn = "calculateTimeDilation"
    /\ call.mass.s > 0
    /\ Less(calculateSchwarzschildRadius(call.mass), call.radius)

\* the result is not above the result at any radius further out
NonDecreasingInRadius ==
    \A r2 \in RadiiOf(call.mass) :
        Leq(call.radius, r2) => Leq(ret, calculateTimeDilation(call.mass, r2))

AtOrigin(p) == IsZero(p.x) /\ IsZero(p.y) /\ IsZero(p.z)

\* the call returned a finite value without dividing by zero
NoDivisionByZero(v) == IsFinite(v) /\ "div0" \notin v.ev

\* C7 as stated: every zero-distance / zero-radius case of every function is a
\* guarded branch that returns a defined sentinel and performs no division by
\* zero: impactParameter = 0 in calculateLensingAngle, position = origin in
\* calculateSpacetimeCurvature and applyGravitationalLensing, and radius = 0
\* in calculateOrbitalVelocity, calculateAccretionTemperature and
\* calculateTimeDilation.
C7_EveryZeroCaseGuarded ==
    /\ (call.fn = "calculateLensingAngle" /\ IsZero(call.impactParameter))
       => IsZero(ret) /\ ret.ev = {}
    /\ (call.fn = "calculateSpacetimeCurvature" /\ AtOrigin(call))
       => IsZero(ret) /\ ret.ev = {}
    /\ (call.fn = "applyGravitationalLensing" /\ AtOrigin(call.position))
       => ret = call.ray
    /\ (call.fn = "calculateOrbitalVelocity" /\ IsZero(call.radius))
       => NoDivisionByZero(ret)
    /\ (call.fn = "calculateAccretionTemperature" /\ IsZero(call.radius))
       => \A ch \in {"r", "g", "b"} : NoDivisionByZero(ret[ch])
    /\ (call.fn = "calculateTimeDilation" /\ IsZero(call.radius))
       => IsZero(ret) /\ ret.ev = {}

\* C7 as amended: impactParameter = 0 in calculateLensingAngle, position =
\* origin in calculateSpacetimeCurvature and applyGravitationalLensing, and
\* radius = 0 in calculateTimeDilation for mass >= 0 are guarded branches that
\* return 0 (the unmodified ray) without a division by zero; radius = 0 in
\* calculateOrbitalVelocity and calculateAccretionTemperature is not guarded:
\* both divide by zero and return a non-finite value, without an exception.
C7_GuardedZeroCases ==
    /\ (call.fn = "calculateLensingAngle" /\ IsZero(call.impactParameter))
       => IsZero(ret) /\ ret.ev = {}
    /\ (call.fn = "calculateSpacetimeCurvature" /\ AtOrigin(call))
       => IsZero(ret) /\ ret.ev = {}
    /\ (call.fn = "applyGravitationalLensing" /\ AtOrigin(call.position))
       => ret = call.ray
    /\ (call.fn = "calculateTimeDilation" /\ IsZero(call.radius)
           /\ call.mass.s >= 0)
       => IsZero(ret) /\ ret.ev = {}
    /\ (call.fn = "calculateOrbitalVelocity" /\ IsZero(call.radius))
       => ~IsFinite(ret) /\ "div0" \in ret.ev
    /\ (call.fn = "calculateAccretionTemperature" /\ IsZero(call.radius))
       => /\ SameNumber(ret.r, IntLit(1))
          /\ ~IsFinite(ret.g) /\ "div0" \in ret.g.ev
          /\ ~IsFinite(ret.b) /\ "div0" \in ret.b.ev

C7_Witness ==
    /\ call.fn = "calculateOrbitalVelocity"
    /\ IsZero(call.radius)
    /\ call.mass = IntLit(10)
    /\ ret.k = "inf"

\* C8: calculateLensingAngle returns exactly 0 when impactParameter is 0, for
\* every mass (positive, zero or negative), and 4 * rs / impactParameter for
\* every other impactParameter.
C8_LensingAngle ==
    call.fn = "calculateLensingAngle"
    => IF IsZero(call.impactParameter)
       THEN IsZero(ret) /\ ret.ev = {}
       ELSE SameNumber(ret, Div(Mul(IntLit(4),
                                    calculateSchwarzschildRadius(call.mass)),
                                call.impactParameter))

C8_Witness ==
    /\ call.fn = "calculateLensingAngle"
    /\ IsZero(call.impactParameter)
    /\ call.mass.s < 0
    /\ IsZero(ret)

\* the relative error allowed between distance * distance, with the distance
\* a rounded square root, and x^2 + y^2 + z^2
CurvatureTolerance == Mul(IntLit(4), Epsilon)

C11_HorizonAndPhotonSphere ==
    /\ (call.fn = "calculateEventHorizon" /\ Less(IntLit(0), call.mass))
        => SameNumber(ret, calculateSchwarzschildRadius(call.mass))
    /\ (call.fn = "calculatePhotonSphere" /\ Less(IntLit(0), call.mass))
        => SameNumber(ret, Mul(Dec(15, -1),
                               calculateSchwarzschildRadius(call.mass)))

\* the photon sphere of 10 solar masses: 1.5 x 29.54 km
C11_Witness ==
    /\ call.fn = "calculatePhotonSphere"
    /\ call.mass = IntLit(10)
    /\ RoundsTo(ret, "44.31")

\* twice the mass stays a finite number of kilograms
DoubleMassIsFinite(mass) ==
    IsFinite(Mul(Mul(IntLit(2), mass), solarMass))

\* the result is a number, not NaN, and no operation was undefined
NoError(v) == v.k # "nan" /\ v.ev = {}

InSpinRange(spin) == Leq(IntLit(0), spin) /\ Leq(spin, IntLit(1))

C18_Formulas(temp) ==
    IF Less(temp, Dec(33, -2))
    THEN <<Mul(IntLit(3), temp), Mul(Dec(25, -1), temp), IntLit(1)>>
    ELSE IF Leq(Dec(33, -2), temp) /\ Less(temp, Dec(66, -2))
    THEN Only({<<Add(Dec(33, -2), Mul(Dec(67, -2), t)),
                 Add(Dec(83, -2), Mul(Dec(17, -2), t)),
                 Sub(IntLit(1), Mul(Dec(3, -1), t))>>
               : t \in {Mul(Sub(temp, Dec(33, -2)), IntLit(3))}})
    ELSE Only({<<IntLit(1),
                 Sub(IntLit(1), Mul(Dec(6, -1), t)),
                 Sub(Dec(7, -1), Mul(Dec(6, -1), t))>>
               : t \in {Mul(Sub(temp, Dec(66, -2)), IntLit(3))}})

\* C18: the colour of the accretion disk is not clamped: with temp =
\* radius^(-0.75) (0.5 + 0.5 colorTemp) it is exactly what the formulas of
\* the three bands give (so g and b are negative once temp is large: t above
\* 5/3 in the hot band), and it is the same for every mass.
C18_ColourUnclamped ==
    (call.fn = "calculateAccretionTemperature"
     /\ accretionTemp(call.radius, call.colorTemp).k # "nan")
    => Only({Only({/\ SameNumber(ret.r, col[1])
                   /\ SameNumber(ret.g, col[2])
                   /\ SameNumber(ret.b, col[3])
                   /\ Less(Dec(122, -2), temp)
                      => Less(ret.g, IntLit(0)) /\ Less(ret.b, IntLit(0))
                   /\ \A mass \in {IntLit(1), IntLit(10)} :
                        ret = calculateAccretionTemperature(
                                  mass, call.radius, call.colorTemp)
                   : col \in {C18_Formulas(temp)}})
             : temp \in {accretionTemp(call.radius, call.colorTemp)}})

\* radius 0.1 and colour temperature 1: temp is about 5.62, g and b are
\* about -7.9 and -8.2
C18_Witness ==
    /\ call.fn = "calculateAccretionTemperature"
    /\ call.radius = Dec(1, -1)
    /\ call.colorTemp = IntLit(1)
    /\ SameNumber(ret.r, IntLit(1))
    /\ Less(ret.g, IntLit(-7))
    /\ Less(ret.b, IntLit(-8))

\* the result of calling the function of the last call once more, with the
\* same arguments: the same Numbers and the same objects, as they are now
SecondCall ==
    CASE call.fn = "calculateSchwarzschildRadius" ->
             calculateSchwarzschildRadius(call.mass)
      [] call.fn = "calculateEventHorizon" -> calculateEventHorizon(call.mass)
      [] call.fn = "calculateISCO" -> calculateISCO(call.mass, call.spin)
      [] call.fn = "calculateLensingAngle" ->
             calculateLensingAngle(call.mass, call.impactParameter)
      [] call.fn = "calculateOrbitalVelocity" ->
             calculateOrbitalVelocity(call.mass, call.radius)
      [] call.fn = "calculateAccretionTemperature" ->
             calculateAccretionTemperature(call.mass, call.radius,
                                           call.colorTemp)
      [] call.fn = "calculateSpacetimeCurvature" ->
             calculateSpacetimeCurvature(call.mass, call.x, call.y, call.z)
      [] call.fn = "calculatePhotonSphere" -> calculatePhotonSphere(call.mass)
      [] call.fn = "calculateTimeDilation" ->
             calculateTimeDilation(call.mass, call.radius)
      [] call.fn = "formatValue" -> formatValue(call.value, call.unit)
      [] call.fn = "applyGravitationalLensing" ->
             applyGravitationalLensing(passed.ray, call.mass, passed.position)

C13_ReadoutsFollowMass ==
    /\ dom["schwarzschild-radius"]
       = TextOf(formatValue(calculateSchwarzschildRadius(params.mass), "km"))
    /\ dom["event-horizon"]
       = TextOf(formatValue(Mul(IntLit(2), calculateEventHorizon(params.mass)),
                            "km"))

\* the mass slider was set to 2.5 and a frame has run since: 7.39 km and
\* 14.77 km
C13_Witness ==
    /\ event.type = "frame"
    /\ params.mass = Dec(25, -1)
    /\ dom["mass-slider"] = TextOf("2.5")
    /\ dom["schwarzschild-radius"] = TextOf("7.39 km")
    /\ dom["event-horizon"] = TextOf("14.77 km")

\* the functions of Physics
PhysicsFunctions ==
    {"calculateSchwarzschildRadius", "calculateEventHorizon", "calculateISCO",
     "calculateLensingAngle", "calculateOrbitalVelocity",
     "calculateAccretionTemperature", "calculateSpacetimeCurvature",
     "calculatePhotonSphere", "calculateTimeDilation", "formatValue",
     "applyGravitationalLensing"}

\* the number of calls of f in the trace of the last handler
RECURSIVE CallsOf(_, _)
CallsOf(f, n) ==
    IF n = 0 THEN 0
    ELSE CallsOf(f, n - 1) + (IF trace[n] = f THEN 1 ELSE 0)

\* the last event changed params.mass or loaded the page
MassWasSet ==
    \/ event.type \in {"DOMContentLoaded", "click"}
    \/ event.type = "input" /\ event.target = "mass-slider"

Forwarded(p, t) ==
    /\ uniforms.grid = [time |-> t, mass |-> p.mass,
                        lensingStrength |-> p.lensingStrength]
    /\ uniforms.accretion = [time |-> t, spin |-> p.spin,
                             brightness |-> p.accretionBrightness,
                             colorTemp |-> p.accretionColor,
                             thickness |-> p.accretionThickness]
    /\ uniforms.blackhole = [time |-> t]
    /\ uniforms.stars = [time |-> t, mass |-> p.mass,
                         lensingStrength |-> p.lensingStrength]

\* C15: a frame leaves the parameters as the events before it set them, and
\* the uniforms it sets are these very values of mass, spin, lensingStrength,
\* accretionBrightness, accretionColor and accretionThickness and the elapsed
\* time, unmodified.
C15_UniformsAreTheParameters ==
    [][event'.type = "frame" => params' = params /\ Forwarded(params, time)']_vars

\* a frame after an input of 2.5 on the mass slider and one of 2 on the
\* lensing slider: its uniforms carry both values
C15_Witness ==
    /\ event.type = "frame"
    /\ handled = 3
    /\ params.mass = Dec(25, -1)
    /\ params.lensingStrength = IntLit(2)
    /\ uniforms.grid.mass = Dec(25, -1)
    /\ uniforms.stars.lensingStrength = IntLit(2)
    /\ uniforms.accretion.spin = Dec(5, -1)
    /\ uniforms.blackhole.time = time

\* C19: a click on reset sets every parameter to its value at construction
\* (mass 10, spin 0.5, brightness 0.8, colour 0.5, thickness 0.3, lensing 1,
\* camera distance 20, camera angle 30, auto-rotate on), whatever the events
\* before it, and leaves the rotation, the elapsed time, the FPS counters and
\* the state of the mouse drag as they are.
C19_ResetRestoresDefaults ==
    [][event'.type = "click"
       => /\ params' = constructorParams
          /\ params'.mass = IntLit(10)
          /\ params'.spin = Dec(5, -1)
          /\ params'.accretionBrightness = Dec(8, -1)
          /\ params'.accretionColor = Dec(5, -1)
          /\ params'.accretionThickness = Dec(3, -1)
          /\ params'.lensingStrength = IntLit(1)
          /\ params'.cameraDistance = IntLit(20)
          /\ params'.cameraAngle = IntLit(30)
          /\ params'.autoRotate = TRUE
          /\ UNCHANGED <<rotation, time, fps, frameCount, lastTime,
                         lastFpsUpdate, mouseDown, lastMouseX, lastMouseY>>]_vars

\* a click on reset during a drag that had moved the camera angle to 90: the
\* angle is 30 again, the drag and the rotation it made are still there
C19_Witness ==
    /\ event.type = "click"
    /\ mouseDown
    /\ lastMouseX = 10
    /\ lastMouseY = 700
    /\ rotation = Add(Dec(2, -3), Mul(IntLit(10), Dec(5, -3)))
    /\ params = constructorParams
    /\ dom["camera-angle-slider"] = NumberOf(IntLit(30))

\* C20: the drag is active (this.mouseDown) exactly from a mousedown to the
\* next mouseup or mouseleave, and a mousemove that comes while no drag is
\* active leaves the rotation, params.cameraAngle, lastMouseX and lastMouseY
\* as they are.
C20_MoveOnlyWhileDragging ==
    [][/\ mouseDown' = CASE event'.type = "mousedown" -> TRUE
                        [] event'.type \in {"mouseup", "mouseleave"} -> FALSE
                        [] OTHER -> mouseDown
       /\ event'.type = "mousemove" /\ ~mouseDown
          => /\ params'.cameraAngle = params.cameraAngle
             /\ UNCHANGED <<rotation, lastMouseX, lastMouseY>>]_vars

\* a mousemove to (0, 0) after a drag that began at (10, 700) and was
\* released: the last position, the camera angle and the rotation of the
\* first frame are what they were
C20_Witness ==
    /\ event.type = "mousemove"
    /\ event.clientX = 0
    /\ event.clientY = 0
    /\ ~mouseDown
    /\ lastMouseX = 10
    /\ lastMouseY = 700
    /\ params.cameraAngle = IntLit(30)
    /\ rotation = Dec(2, -3)

\* a camera angle from 0 to 90 degrees
InAngleRange(a) == a.k = "fin" /\ ~Less(a, IntLit(0)) /\ ~Less(IntLit(90), a)

\* the last event was an input of val on the slider of the camera angle
AngleInput(e) == e.type = "input" /\ e.target = "camera-angle-slider"

\* C21: after a mousemove of a drag params.cameraAngle is from 0 to 90,
\* whatever it was before and wherever the pointer went, and the slider of the
\* camera angle is given this value; the handler of the slider does not clamp
\* (the angle is parseFloat of the value of the slider), so the angle leaves
\* the range 0 .. 90 only by an input of the slider outside this range.
C21_ClampOnDragOnly ==
    [][/\ event'.type = "mousemove" /\ mouseDown
          => /\ InAngleRange(params'.cameraAngle)
             /\ dom'["camera-angle-slider"] = NumberOf(params'.cameraAngle)
       /\ AngleInput(event')
          => params'.cameraAngle = parseFloat(event'.value)
       /\ InAngleRange(params.cameraAngle) /\ ~InAngleRange(params'.cameraAngle)
          => AngleInput(event') /\ ~InAngleRange(parseFloat(event'.value))]_vars

\* the slider was set to 120, then a drag moved the pointer 700 down: the
\* angle would be 190 and is 90, in the parameters and in the slider
C21_Witness ==
    /\ event.type = "mousemove"
    /\ mouseDown
    /\ lastMouseY = 700
    /\ handled = 3
    /\ params.cameraAngle = IntLit(90)
    /\ dom["camera-angle-slider"] = NumberOf(IntLit(90))
    /\ dom["camera-angle-value"] = TextOf("90" \o Degree)

\* the step is an animation frame
IsFrame == event'.type = "frame" /\ handled' = handled + 1

\* C22: one frame is requested and not yet run in every state, since each
\* frame requests one; the elapsed time never decreases; a frame adds 0.002
\* to the rotation when auto-rotate is on and leaves it when it is off; a
\* frame that comes 1000 ms or more after the last update of the FPS
\* publishes the count of frames as the FPS and sets the count to 0, any
\* other frame adds one to the count, and no other event touches them.
C22_OneFramePendingAndCounters ==
    [][/\ pending = 1 /\ pending' = 1
       /\ ~Less(time', time)
       /\ IsFrame
          => /\ Less(time, time')
             /\ rotation' = IF params.autoRotate
                             THEN Add(rotation, Dec(2, -3))
                             ELSE rotation
             /\ params.autoRotate <=> Less(rotation, rotation')
             /\ IF event'.now - lastFpsUpdate >= 1000
                THEN /\ fps' = frameCount + 1
                     /\ frameCount' = 0
                     /\ lastFpsUpdate' = event'.now
                     /\ dom'["fps-counter"] = TextOf(IntStr(fps'))
                ELSE /\ frameCount' = frameCount + 1
                     /\ UNCHANGED <<fps, lastFpsUpdate>>
                     /\ dom'["fps-counter"] = dom["fps-counter"]
       /\ ~IsFrame
          => /\ UNCHANGED <<time, fps, frameCount, lastFpsUpdate, pending>>
             /\ dom'["fps-counter"] = dom["fps-counter"]]_vars

\* the frame exactly 1000 ms after the update of the FPS at 1040 ms: the
\* one frame since then is published, the count is 0, the rotation has its
\* three steps of 0.002, and one frame is pending
C22_Witness ==
    /\ event.type = "frame"
    /\ event.now = 2040
    /\ lastFpsUpdate = 2040
    /\ fps = 1
    /\ frameCount = 0
    /\ dom["fps-counter"] = TextOf("1")
    /\ params.autoRotate
    /\ rotation = Add(Add(Dec(2, -3), Dec(2, -3)), Dec(2, -3))
    /\ pending = 1

====
